---- MODULE Spec2Model ----
(***************************************************************************)
(* snap-generator: the snapshot pipeline of createSnapshot                 *)
(* (src/src/database.js:329-580), with the directory walker and the entry  *)
(* capture (src/unnamed/part_000) and the database helpers                 *)
(* (src/unnamed/part_001).                                                 *)
(*                                                                         *)
(* A path is a sequence of one-character strings.  A nullable column is a  *)
(* sequence of length 0 (null) or 1 (the value).  A SHA-256 digest is      *)
(* modelled by its preimage (collision-free), tagged "sha256".             *)
(***************************************************************************)
EXTENDS Integers, Sequences, FiniteSets, TLC

\* ------------------------------------------------------------------ bounds

\* The flush threshold of the walk loop.  The code uses 200; the model scales
\* it down so that full batches, a failed full batch and a final partial
\* batch all occur on a tree of seven entries.
BatchThreshold == 2

\* Environment faults (I/O errors) injected per run.
MaxFaults == 2

\* ---------------------------------------------------------------- helpers

Null == <<>>

Some(v) == <<v>>

IsNull(x) == Len(x) = 0

RECURSIVE SeqSum(_)
SeqSum(s) == IF s = <<>> THEN 0 ELSE Head(s) + SeqSum(Tail(s))

SeqToSet(s) == { s[i] : i \in 1..Len(s) }

\* All orderings of a finite set, as sequences.
Perms(S) ==
  { p \in [1..Cardinality(S) -> S] : \A i, j \in 1..Cardinality(S) : p[i] = p[j] => i = j }

\* Byte value of a character (UTF-8, one byte each here).
Code(c) ==
  CASE c = "." -> 46
    [] c = "/" -> 47
    [] c = "\\" -> 92
    [] c = "a" -> 97
    [] c = "b" -> 98
    [] c = "l" -> 108
    [] c = "n" -> 110
    [] c = "p" -> 112
    [] c = "s" -> 115
    [] c = "x" -> 120
    [] c = "y" -> 121
    [] OTHER -> 0

\* ------------------------------------------------------- the file system

\* The scanned tree.  Node 1 is the scan root.
\*   a        file  "hi"
\*   s/       dir
\*   s/b      file  "bye"
\*   s/l      link -> ..   (the scan root: a cycle for whoever follows it)
\*   n/       dir
\*   n/x\y    file  (a POSIX name holding a backslash)
\*   p        fifo
RootNode == 1

FsTree ==
  << [name |-> <<>>, parent |-> 0, kind |-> "dir", size |-> 4096, content |-> <<>>,
      linkTarget |-> <<>>, mtimeUs |-> 1000500, ctimeUs |-> 1000500, birthUs |-> 0,
      mode |-> 16877, uid |-> 0, gid |-> 0, ino |-> 100, nlink |-> 4],
     [name |-> <<"a">>, parent |-> 1, kind |-> "file", size |-> 2, content |-> <<"h", "i">>,
      linkTarget |-> <<>>, mtimeUs |-> 2000999, ctimeUs |-> 2000999, birthUs |-> 1500000,
      mode |-> 33188, uid |-> 0, gid |-> 0, ino |-> 101, nlink |-> 1],
     [name |-> <<"s">>, parent |-> 1, kind |-> "dir", size |-> 4096, content |-> <<>>,
      linkTarget |-> <<>>, mtimeUs |-> 3000000, ctimeUs |-> 3000000, birthUs |-> 0,
      mode |-> 16877, uid |-> 1, gid |-> 1, ino |-> 102, nlink |-> 2],
     [name |-> <<"b">>, parent |-> 3, kind |-> "file", size |-> 3, content |-> <<"b", "y", "e">>,
      linkTarget |-> <<>>, mtimeUs |-> 4000001, ctimeUs |-> 4000001, birthUs |-> 0,
      mode |-> 33261, uid |-> 1, gid |-> 0, ino |-> 103, nlink |-> 1],
     [name |-> <<"l">>, parent |-> 3, kind |-> "link", size |-> 2, content |-> <<>>,
      linkTarget |-> <<".", ".">>, mtimeUs |-> 5000000, ctimeUs |-> 5000000,
      birthUs |-> 0, mode |-> 41471, uid |-> 0, gid |-> 0, ino |-> 104, nlink |-> 1],
     [name |-> <<"n">>, parent |-> 1, kind |-> "dir", size |-> 4096, content |-> <<>>,
      linkTarget |-> <<>>, mtimeUs |-> 6000000, ctimeUs |-> 6000000, birthUs |-> 0,
      mode |-> 16877, uid |-> 0, gid |-> 0, ino |-> 105, nlink |-> 2],
     [name |-> <<"x", "\\", "y">>, parent |-> 6, kind |-> "file", size |-> 1, content |-> <<"x">>,
      linkTarget |-> <<>>, mtimeUs |-> 7000000, ctimeUs |-> 7000000, birthUs |-> 0,
      mode |-> 33188, uid |-> 0, gid |-> 1, ino |-> 106, nlink |-> 1],
     [name |-> <<"p">>, parent |-> 1, kind |-> "fifo", size |-> 0, content |-> <<>>,
      linkTarget |-> <<>>, mtimeUs |-> 8000000, ctimeUs |-> 8000000, birthUs |-> 0,
      mode |-> 4516, uid |-> 0, gid |-> 0, ino |-> 107, nlink |-> 1] >>

Nodes == 1..Len(FsTree)

Children(d) == { n \in Nodes : FsTree[n].parent = d }

\* The node a path names once a symbolic link is followed: a link to `..`
\* names the parent of the directory that holds the link.
Follow(n) ==
  IF FsTree[n].kind = "link" /\ FsTree[n].linkTarget = <<".", ".">>
  THEN FsTree[FsTree[n].parent].parent
  ELSE n

\* /etc/passwd and /etc/group as loaded by UserGroupInfo: uid 0 and gid 0 are
\* known, uid 1 and gid 1 are not.
usersCache ==
  { [uid |-> 0, username |-> "root", gid |-> 0, gecos |-> "root", homedir |-> "/root",
     shell |-> "/bin/sh"] }

groupsCache == { [gid |-> 0, groupname |-> "root", members |-> <<"root">>] }

getUserByUid(uid) == { u \in usersCache : u.uid = uid }

getGroupByGid(gid) == { g \in groupsCache : g.gid = gid }

\* ------------------------------------------------------------------ paths

\* node:path `sep` of the host (POSIX).
sep == "/"

RECURSIVE RelSegments(_)
RelSegments(n) ==
  IF n = RootNode THEN <<>> ELSE Append(RelSegments(FsTree[n].parent), FsTree[n].name)

RECURSIVE JoinWith(_, _)
JoinWith(segs, c) ==
  IF segs = <<>> THEN <<>>
  ELSE IF Len(segs) = 1 THEN segs[1]
  ELSE segs[1] \o <<c>> \o JoinWith(Tail(segs), c)

\* relative(rootPath, fullPath) || '.'
relative(n) ==
  LET r == JoinWith(RelSegments(n), sep) IN IF r = <<>> THEN <<".">> ELSE r

\* s.replace(/\\+/g, '/'): every run of backslashes becomes one slash.
RECURSIVE ReplaceBackslashRuns(_)
ReplaceBackslashRuns(s) ==
  IF s = <<>> THEN <<>>
  ELSE IF Head(s) = "\\"
       THEN IF Len(s) > 1 /\ s[2] = "\\"
            THEN ReplaceBackslashRuns(Tail(s))
            ELSE <<"/">> \o ReplaceBackslashRuns(Tail(s))
       ELSE <<Head(s)>> \o ReplaceBackslashRuns(Tail(s))

\* s.split(c)
RECURSIVE Split(_, _)
Split(s, c) ==
  IF \A i \in 1..Len(s) : s[i] # c THEN <<s>>
  ELSE LET k == CHOOSE i \in 1..Len(s) : s[i] = c /\ \A j \in 1..(i - 1) : s[j] # c
       IN <<SubSeq(s, 1, k - 1)>> \o Split(SubSeq(s, k + 1, Len(s)), c)

\* ------------------------------------------------------------- exclusions

GLOBSTAR == <<"*", "*">>

\* minimatch's matchOne on path segments, for patterns made of literal
\* segments and `**` (options dot: true, nocase: true; names are lower case).
RECURSIVE MatchOne(_, _)
MatchOne(file, pattern) ==
  IF file = <<>> /\ pattern = <<>> THEN TRUE
  ELSE IF file = <<>> THEN FALSE
  ELSE IF pattern = <<>> THEN Len(file) = 1 /\ file[1] = <<>>
  ELSE IF Head(pattern) = GLOBSTAR
       THEN IF Len(pattern) = 1
            THEN \A i \in 1..Len(file) : file[i] \notin {<<".">>, <<".", ".">>}
            ELSE \E k \in 0..(Len(file) - 1) :
                   /\ \A i \in 1..k : file[i] \notin {<<".">>, <<".", ".">>}
                   /\ MatchOne(SubSeq(file, k + 1, Len(file)), Tail(pattern))
       ELSE Head(file) = Head(pattern) /\ MatchOne(Tail(file), Tail(pattern))

\* compileExclusions: one matcher per pattern; a matcher is its pattern split
\* into segments.
compileExclusions(patterns) == [i \in 1..Len(patterns) |-> Split(patterns[i], "/")]

\* An exclusion test applied to leaves only: an excluded directory is walked.
shouldExclude_LeavesOnly(n, matchers) ==
  /\ FsTree[n].kind # "dir"
  /\ Len(matchers) > 0
  /\ \E i \in 1..Len(matchers) : MatchOne(Split(relative(n), "/"), matchers[i])

shouldExclude(n, matchers) ==
  IF Len(matchers) = 0 THEN FALSE
  ELSE LET rel == relative(n)
           relPath == IF sep = "\\" THEN JoinWith(Split(rel, "\\"), "/") ELSE rel
       IN \E i \in 1..Len(matchers) : MatchOne(Split(relPath, "/"), matchers[i])

\* The exclusion lists a run is started with: none, **/n/**, the directory s
\* by its name alone (its descendants match no pattern), or the scan root.
ExcludeChoices ==
  { <<>>, << <<"*", "*", "/", "n", "/", "*", "*">> >>, << <<"s">> >>, << <<".">> >> }

\* ----------------------------------------------------------------- walker

\* The generator walk(dir, rootPath, matchers) as a stack of frames, one per
\* active call: the directory, whether readdir is still to be done (the
\* directory itself has just been yielded), and the entries left to visit.
NoYield == 0

\* A call that yields its directory and then reads nothing.
Frame_NothingToRead(d) == [dir |-> d, fresh |-> FALSE, todo |-> <<>>]

Frame(d) == [dir |-> d, fresh |-> TRUE, todo |-> <<>>]

\* entry.isDirectory() answering for what a link points to, as stat would.
isDirectory_FollowingLinks(e) == FsTree[Follow(e)].kind = "dir"

\* entry.isDirectory() of a Dirent: the type of the entry itself, so false for
\* a symbolic link whatever it points to.
isDirectory(e) == FsTree[e].kind = "dir"

\* A walk that puts a subdirectory aside, already listed, until every call
\* above it has finished its own entries.
yieldStar_AfterSiblings(st, e) ==
  <<[dir |-> e, fresh |-> FALSE, todo |-> CHOOSE l \in Perms(Children(e)) : TRUE]>> \o st

\* `yield* walk(fullPath, rootPath, matchers)`: the call for the subdirectory
\* becomes the innermost one and the loop of its parent waits until it ends.
yieldStar(st, e) == Append(st, Frame(e))

\* The for-loop over the entries of the innermost call, up to the next yield.
RECURSIVE Advance(_, _)
Advance(st, matchers) ==
  IF st = <<>> THEN [yield |-> NoYield, stack |-> <<>>]
  ELSE LET top == st[Len(st)]
           rest == SubSeq(st, 1, Len(st) - 1)
       IN IF top.todo = <<>> THEN Advance(rest, matchers)
          ELSE LET e == Head(top.todo)
                   st2 == Append(rest, [top EXCEPT !.todo = Tail(top.todo)])
               IN IF shouldExclude(e, matchers) THEN Advance(st2, matchers)
                  ELSE IF isDirectory(e)
                       THEN [yield |-> e, stack |-> yieldStar(st2, e)]
                       ELSE [yield |-> e, stack |-> st2]

\* A failed listing ending the whole walk.
AfterListError_Abort(st) == <<>>

\* `.catch((err) => { return []; })`: the failed listing counts as an empty
\* directory and the calls above it go on.
AfterListError(st) == st

\* readdir(absDir, {withFileTypes: true}).catch(() => []): the children in any
\* order, or nothing when the listing fails.
readdir(d, fails) == IF fails THEN {<<>>} ELSE Perms(Children(Follow(d)))

\* One pull of the generator: the next yielded node (NoYield when the walk is
\* over), the generator's new state, and the directory whose listing failed.
walk(st, started, matchers, mayFail) ==
  IF ~started
  THEN IF shouldExclude(RootNode, matchers)
       THEN { [yield |-> NoYield, stack |-> <<>>, listFailed |-> {}] }
       ELSE { [yield |-> RootNode, stack |-> <<Frame(RootNode)>>, listFailed |-> {}] }
  ELSE IF st = <<>> THEN { [yield |-> NoYield, stack |-> <<>>, listFailed |-> {}] }
  ELSE LET top == st[Len(st)]
           rest == SubSeq(st, 1, Len(st) - 1)
       IN IF top.fresh
          THEN UNION { { [yield |-> r.yield, stack |-> r.stack,
                           listFailed |-> IF f THEN {top.dir} ELSE {}] :
                          r \in { Advance(IF f THEN AfterListError(Append(rest, [top EXCEPT !.fresh = FALSE, !.todo = l]))
                                               ELSE Append(rest, [top EXCEPT !.fresh = FALSE, !.todo = l]),
                                          matchers) : l \in readdir(top.dir, f) } } :
                       f \in (IF mayFail THEN BOOLEAN ELSE {FALSE}) }
          ELSE { [yield |-> r.yield, stack |-> r.stack, listFailed |-> {}] :
                 r \in { Advance(st, matchers) } }

\* ---------------------------------------------------------- entry capture

Sha256(bytes) == <<"sha256", bytes>>

\* calculateFileHash(filePath): the digest of the file's bytes, or null when
\* reading fails.
calculateFileHash(n, readOk) == IF readOk THEN Some(Sha256(FsTree[n].content)) ELSE Null

\* getEntryData(filePath, rootPath, calculateFileHash) when lstat and readlink
\* succeed: the record, or null for an unsupported type.  fileHash is what
\* calculateFileHash returns for this path.
getEntryData(n, fileHash) ==
  LET st == FsTree[n]
      relPath == ReplaceBackslashRuns(relative(n))
      meta == [path |-> relPath,
               size |-> Some(st.size),
               mtime |-> st.mtimeUs \div 1000,
               ctime |-> st.ctimeUs \div 1000,
               btime |-> st.birthUs \div 1000,
               mode |-> st.mode % 512,
               uid |-> st.uid,
               gid |-> st.gid,
               ino |-> st.ino,
               nlink |-> st.nlink,
               hash |-> Null,
               target |-> Null]
  IN IF st.kind = "dir" THEN Some([type |-> "dir", size |-> Null] @@ meta)
     ELSE IF st.kind = "link"
          THEN Some([type |-> "link", target |-> Some(ReplaceBackslashRuns(st.linkTarget))] @@ meta)
     ELSE IF st.kind = "file" THEN Some([type |-> "file", hash |-> fileHash] @@ meta)
     ELSE Null

\* --------------------------------------------------------------- database

\* INSERT INTO entries fails on a path that is already a row (path is the
\* primary key): within the table or earlier in the same batch.
PrimaryKeyConflict(table, items) ==
  \E i \in 1..Len(items) :
    \/ \E j \in 1..Len(table) : table[j].path = items[i].path
    \/ \E j \in 1..(i - 1) : items[j].path = items[i].path

\* A transaction that loses the first record of its batch.
transaction_SkipsFirst(table, items) == table \o Tail(items)

\* transaction(items), committed: every item becomes a row.
transaction(table, items) == table \o items

\* A throwing batch that keeps the row written before the throw.
rollback_KeepsFirstRow(table, items) == Append(table, items[1])

\* transaction(items), throwing: db.transaction rolls the whole batch back.
rollback(table, items) == table

RECURSIVE BytesLess(_, _)
BytesLess(a, b) ==
  IF b = <<>> THEN FALSE
  ELSE IF a = <<>> THEN TRUE
  ELSE IF Code(Head(a)) < Code(Head(b)) THEN TRUE
  ELSE IF Code(Head(a)) > Code(Head(b)) THEN FALSE
  ELSE BytesLess(Tail(a), Tail(b))

\* SELECT * ... ORDER BY <key> ASC, the key being the table's primary key
\* (no two rows share it): a row's place is one more than the number of rows
\* with a smaller key.  less[j, i]: row j's key is smaller than row i's.
OrderBy(rows, less) ==
  LET Rank(i) == 1 + Cardinality({ j \in 1..Len(rows) : less[j, i] })
  IN [k \in 1..Len(rows) |-> rows[CHOOSE i \in 1..Len(rows) : Rank(i) = k]]

OrderByPath(rows) ==
  OrderBy(rows, [j \in 1..Len(rows), i \in 1..Len(rows) |-> BytesLess(rows[j].path, rows[i].path)])

OrderByUid(rows) ==
  OrderBy(rows, [j \in 1..Len(rows), i \in 1..Len(rows) |-> rows[j].uid < rows[i].uid])

OrderByGid(rows) ==
  OrderBy(rows, [j \in 1..Len(rows), i \in 1..Len(rows) |-> rows[j].gid < rows[i].gid])

\* JSON.stringify(row): the columns in table order.
StringifyEntry(r) ==
  <<r.path, r.type, r.size, r.mtime, r.ctime, r.btime, r.mode, r.uid, r.gid, r.ino, r.nlink,
    r.hash, r.target>>

StringifyUser(r) == <<r.uid, r.username, r.gid, r.gecos, r.homedir, r.shell>>

StringifyGroup(r) == <<r.gid, r.groupname, r.members>>

\* The updates the hasher receives for the rows of one statement.
EntryUpdates(rows) == [i \in 1..Len(rows) |-> StringifyEntry(rows[i])]

UserUpdates(rows) == [i \in 1..Len(rows) |-> StringifyUser(rows[i])]

GroupUpdates(rows) == [i \in 1..Len(rows) |-> StringifyGroup(rows[i])]

\* calculateSnapshotContentHash reading entries without ORDER BY.
calculateSnapshotContentHash_InsertionOrder(entriesT, usersT, groupsT) ==
  Sha256(EntryUpdates(entriesT)
         \o UserUpdates(OrderByUid(usersT))
         \o GroupUpdates(OrderByGid(groupsT)))

calculateSnapshotContentHash(entriesT, usersT, groupsT) ==
  Sha256(EntryUpdates(OrderByPath(entriesT))
         \o UserUpdates(OrderByUid(usersT))
         \o GroupUpdates(OrderByGid(groupsT)))

\* The users row stored for a found uid.
UserRow(uid) ==
  IF getUserByUid(uid) # {}
  THEN LET user == CHOOSE u \in getUserByUid(uid) : TRUE
       IN [uid |-> user.uid, username |-> <<user.username>>, gid |-> Some(user.gid),
           gecos |-> user.gecos, homedir |-> Some(user.homedir), shell |-> Some(user.shell)]
  ELSE [uid |-> uid, username |-> <<"unknown_u", uid>>, gid |-> Null,
        gecos |-> "Unknown user", homedir |-> Null, shell |-> Null]

\* The groups row stored for a found gid.
GroupRow(gid) ==
  IF getGroupByGid(gid) # {}
  THEN LET group == CHOOSE g \in getGroupByGid(gid) : TRUE
       IN [gid |-> group.gid, groupname |-> <<group.groupname>>, members |-> Some(group.members)]
  ELSE [gid |-> gid, groupname |-> <<"unknown_g", gid>>, members |-> Null]

\* Rows for the uids the identity lookup knows only.
UserRows_KnownOnly(ids) ==
  LET known == { id \in ids : getUserByUid(id) # {} }
      p == CHOOSE q \in Perms(known) : TRUE
  IN [i \in 1..Len(p) |-> UserRow(p[i])]

\* The rows inserted for a Set of IDs, in the Set's iteration order.
UserRows(ids) == LET p == CHOOSE q \in Perms(ids) : TRUE IN [i \in 1..Len(p) |-> UserRow(p[i])]

GroupRows(ids) == LET p == CHOOSE q \in Perms(ids) : TRUE IN [i \in 1..Len(p) |-> GroupRow(p[i])]

\* ------------------------------------------------------------- main (CLI)

\* A setting of one source: null when the source does not give it (undefined),
\* else the string, which may be empty.  JavaScript's `||` passes over both.
Truthy(x) == ~IsNull(x) /\ x[1] # ""

\* A choice in which the later source wins.
OrElse_LastWins(a, b) == IF Truthy(b) THEN b ELSE a

\* a || b
OrElse(a, b) == IF Truthy(a) THEN a ELSE b

\* resolve(p): the absolute form of a path.
resolve(p) == <<"resolved", p>>

\* An exclude option: an array of patterns, or something that is no array
\* (absent, or a config value of another type).
NoArray == [array |-> FALSE, items |-> <<>>]

ArrayOf(items) == [array |-> TRUE, items |-> items]

\* Array.isArray(x) ? x : []
ArrayOrEmpty(x) == IF x.array THEN x.items ELSE <<>>

\* Nothing given on the command line, in a config file or in the environment.
NoInputs ==
  [cliPath |-> Null, filePath |-> Null, envPath |-> Null,
   cliOut |-> Null, fileOut |-> Null, envOut |-> Null,
   cliExclude |-> NoArray, fileExclude |-> NoArray,
   cliSign |-> FALSE, fileSign |-> FALSE, cliChecksum |-> FALSE, fileChecksum |-> FALSE]

\* The inputs main() is checked with: every source of the scan path absent,
\* empty or set; every source of the output path absent or set; excludes on
\* the command line and in the file (where the value may be no array); the
\* two artifact flags from either source.
InputChoices ==
  [cliPath : {Null, Some(""), Some("/cli")},
   filePath : {Null, Some(""), Some("/file")},
   envPath : {Null, Some(""), Some("/env")},
   cliOut : {Null, Some("cli.db")},
   fileOut : {Null, Some("file.db")},
   envOut : {Null, Some("env.db")},
   cliExclude : {NoArray, ArrayOf(<< <<"s">> >>)},
   fileExclude : {NoArray, ArrayOf(<<>>), ArrayOf(<< <<"*", "*", "/", "n", "/", "*", "*">> >>)},
   cliSign : BOOLEAN, fileSign : BOOLEAN, cliChecksum : BOOLEAN, fileChecksum : BOOLEAN]

\* Step 2 of main: the final configuration (Priority: CLI > Config File > Env
\* > Default).
ResolveConfig(in) ==
  [targetDir |-> resolve(OrElse(in.cliPath, OrElse(in.filePath, OrElse(in.envPath, Some("."))))[1]),
   dbPath |-> resolve(OrElse(in.cliOut,
                             OrElse(in.fileOut, OrElse(in.envOut, Some("./snapshot-now.db"))))[1]),
   excludePaths |-> ArrayOrEmpty(in.cliExclude) \o ArrayOrEmpty(in.fileExclude),
   generateSignFile |-> in.cliSign \/ in.fileSign,
   generateChecksum |-> in.cliChecksum \/ in.fileChecksum]

\* ------------------------------------------------------------------ state

VARIABLES
  pc,            \* where createSnapshot stands
  excludePaths,  \* options.excludePaths
  stack,         \* the walk generator's frames
  started,       \* whether the generator has been pulled
  buffer,        \* the batch buffer
  entries,       \* table entries, rows in insertion order
  users,         \* table users
  groups,        \* table groups
  snapshot_info, \* table snapshot_info
  count,         \* entries found
  errorCount,    \* errors
  stats,         \* files, dirs, links, totalSize
  foundUids,
  foundGids,
  sign,          \* the signature, null until computed
  isSuccess,
  dbOpen,        \* the connection is open
  outcome,       \* how the call ended: "pending", "resolved" or "rejected"
  faults,        \* environment faults injected so far
  sigFile,       \* content of <dbPath>.sig, null while the file does not exist
  checksumFile,  \* content of <dbPath>.sha256, null while the file does not exist
  inputs,        \* what main() reads: CLI values, config file, environment
  config,        \* the configuration main() resolved, null before
  toYield,       \* relative paths a walk given by its output has still to yield
  history        \* what happened in the run (not program state)

vars ==
  <<pc, excludePaths, stack, started, buffer, entries, users, groups, snapshot_info, count,
    errorCount, stats, foundUids, foundGids, sign, isSuccess, dbOpen, outcome, faults,
    sigFile, checksumFile, inputs, config, toYield, history>>

walkVars == <<stack, started>>

artifactVars == <<sigFile, checksumFile>>

cliVars == <<inputs, config>>

\* What the steps of the pipeline up to db.close() leave alone.
otherVars == <<excludePaths, artifactVars, cliVars, toYield>>

dbVars == <<entries, users, groups, snapshot_info>>

counterVars == <<count, errorCount, stats, foundUids, foundGids>>

\* history.last: the step just taken and the path it was about; yielded: the
\* paths the walker yielded, in order;
\* captured: every record appended to the buffer; capFailed: paths whose
\* capture threw; hashFailed: files whose content hash came back null;
\* listFailed: directories whose listing failed; flushFailed / signFailed /
\* identFailed / manifestFailed: which pipeline steps threw.
NoHistory ==
  [last |-> [op |-> "start", node |-> 0], yielded |-> <<>>, captured |-> {}, capFailed |-> {}, hashFailed |-> {},
   listFailed |-> {}, unsupported |-> {}, flushFailed |-> 0, signFailed |-> FALSE,
   identFailed |-> FALSE, manifestFailed |-> FALSE]

\* createSnapshot entered for the first time on a database path: initDb has
\* opened the database and created the empty tables, no local is set yet.
Entered ==
  /\ stack = <<>>
  /\ started = FALSE
  /\ buffer = <<>>
  /\ entries = <<>>
  /\ users = <<>>
  /\ groups = <<>>
  /\ snapshot_info = <<>>
  /\ count = 0
  /\ errorCount = 0
  /\ stats = [files |-> 0, dirs |-> 0, links |-> 0, totalSize |-> 0]
  /\ foundUids = {}
  /\ foundGids = {}
  /\ sign = Null
  /\ isSuccess = TRUE
  /\ dbOpen = TRUE
  /\ outcome = "pending"
  /\ faults = 0
  /\ sigFile = Null
  /\ checksumFile = Null
  /\ config = Null
  /\ history = NoHistory

\* A call of createSnapshot with one of the exclusion lists.
Init ==
  /\ pc = "setup"
  /\ excludePaths \in ExcludeChoices
  /\ inputs = NoInputs
  /\ toYield = <<>>
  /\ Entered

\* main() started with one of the inputs.
ConfigInit ==
  /\ pc = "main"
  /\ excludePaths = <<>>
  /\ inputs \in InputChoices
  /\ toYield = <<>>
  /\ Entered

\* main(): resolve the configuration and call createSnapshot with it.
Main ==
  /\ pc = "main"
  /\ config' = Some(ResolveConfig(inputs))
  /\ excludePaths' = ResolveConfig(inputs).excludePaths
  /\ pc' = "setup"
  /\ history' = [history EXCEPT !.last = [op |-> "main", node |-> 0]]
  /\ UNCHANGED <<walkVars, buffer, dbVars, counterVars, sign, isSuccess, dbOpen, outcome, faults,
                 artifactVars, inputs, toYield>>

ConfigNext == Main

ConfigSpec == ConfigInit /\ [][ConfigNext]_vars

\* ------------------------------------------- between initDb and the try

\* new UserGroupInfo, compileExclusions, db.prepare and the locals: all done,
\* the try statement is entered.
Setup ==
  /\ pc = "setup"
  /\ pc' = "walk"
  /\ history' = [history EXCEPT !.last = [op |-> "setup", node |-> 0]]
  /\ UNCHANGED <<otherVars, walkVars, buffer, dbVars, counterVars, sign, isSuccess, dbOpen,
                 outcome, faults>>

\* One of them throws (compileExclusions on a pattern that is no string,
\* db.prepare on a locked database): no try statement is open yet, so the call
\* ends with that error and nothing closes the database.
SetupError ==
  /\ pc = "setup"
  /\ faults < MaxFaults
  /\ faults' = faults + 1
  /\ outcome' = "rejected"
  /\ pc' = "thrown"
  /\ history' = [history EXCEPT !.last = [op |-> "setup_error", node |-> 0]]
  /\ UNCHANGED <<otherVars, walkVars, buffer, dbVars, counterVars, sign, isSuccess, dbOpen>>

excludeMatchers == compileExclusions(excludePaths)

\* ------------------------------------------------------- the walk loop

\* The pulls of the generator the environment allows.
Pulls == walk(stack, started, excludeMatchers, faults < MaxFaults)

\* UpdateStats adding the size of every record, not only of files.
UpdateStats_SizeOfEveryType(s, data) ==
  LET t == [s EXCEPT !.totalSize = @ + (IF IsNull(data.size) THEN 0 ELSE data.size[1])]
  IN IF data.type = "file" THEN [t EXCEPT !.files = @ + 1]
     ELSE IF data.type = "dir" THEN [t EXCEPT !.dirs = @ + 1]
     ELSE IF data.type = "link" THEN [t EXCEPT !.links = @ + 1]
     ELSE t

\* Statistics whose size is that of the last file seen.
UpdateStats_LastSize(s, data) ==
  IF data.type = "file"
  THEN [s EXCEPT !.files = @ + 1,
                 !.totalSize = IF IsNull(data.size) THEN 0 ELSE data.size[1]]
  ELSE IF data.type = "dir" THEN [s EXCEPT !.dirs = @ + 1]
  ELSE IF data.type = "link" THEN [s EXCEPT !.links = @ + 1]
  ELSE s

\* Live statistics (count is kept apart).
UpdateStats(s, data) ==
  IF data.type = "file"
  THEN [s EXCEPT !.files = @ + 1,
                 !.totalSize = @ + (IF IsNull(data.size) THEN 0 ELSE data.size[1])]
  ELSE IF data.type = "dir" THEN [s EXCEPT !.dirs = @ + 1]
  ELSE IF data.type = "link" THEN [s EXCEPT !.links = @ + 1]
  ELSE s

\* `if (data) { ... buffer.push(data) }`: what one captured value makes of the
\* counters and the buffer.  skip: the `continue` of a record whose path is
\* '.' or '..'.
Recorded(data) ==
  IF IsNull(data)
  THEN [skip |-> FALSE, pushed |-> {}, count |-> count, stats |-> stats, uids |-> foundUids,
        gids |-> foundGids, buffer |-> buffer]
  ELSE IF data[1].path \in {<<".", ".">>, <<".">>}
  THEN [skip |-> TRUE, pushed |-> {}, count |-> count, stats |-> stats, uids |-> foundUids,
        gids |-> foundGids, buffer |-> buffer]
  ELSE [skip |-> FALSE, pushed |-> {data[1]}, count |-> count + 1,
        stats |-> UpdateStats(stats, data[1]),
        uids |-> foundUids \cup {data[1].uid}, gids |-> foundGids \cup {data[1].gid},
        buffer |-> Append(buffer, data[1])]

\* `if (buffer.length >= 200)`
FlushDue(buf) == Len(buf) >= BatchThreshold

\* The values calculateFileHash may return for a path, with the fault each costs.
HashResults(n, budget) ==
  { [hash |-> calculateFileHash(n, TRUE), fault |-> 0] }
  \cup (IF FsTree[n].kind = "file" /\ budget > 0
        THEN { [hash |-> calculateFileHash(n, FALSE), fault |-> 1] } ELSE {})

\* for await: the generator is exhausted, the loop ends.
WalkEnd ==
  /\ pc = "walk"
  /\ \E r \in Pulls :
       /\ r.yield = NoYield
       /\ stack' = r.stack
       /\ started' = TRUE
       /\ faults' = faults + Cardinality(r.listFailed)
       /\ history' = [history EXCEPT !.last = [op |-> "end", node |-> 0],
                                    !.listFailed = @ \cup r.listFailed]
  /\ pc' = "finalize"
  /\ UNCHANGED <<otherVars, buffer, dbVars, counterVars, sign, isSuccess, dbOpen, outcome>>

\* The root test that never recognises the root.
IsScanRoot_Never(n) == FALSE

\* resolve(filePath) === absTargetDir
IsScanRoot(n) == n = RootNode

\* `if (resolve(filePath) === absTargetDir) continue;`
IterRoot ==
  /\ pc = "walk"
  /\ \E r \in Pulls :
       /\ r.yield # NoYield /\ IsScanRoot(r.yield)
       /\ stack' = r.stack
       /\ started' = TRUE
       /\ faults' = faults + Cardinality(r.listFailed)
       /\ history' = [history EXCEPT !.last = [op |-> "root", node |-> RootNode],
                                    !.yielded = Append(@, r.yield),
                                    !.listFailed = @ \cup r.listFailed]
  /\ UNCHANGED <<pc, otherVars, buffer, dbVars, counterVars, sign, isSuccess, dbOpen, outcome>>

\* The catch of the loop body leaving the counter alone.
OnEntryError_Uncounted(n) == n

\* catch (e) { errorCount++ } of the loop body.
OnEntryError(n) == n + 1

\* getEntryData throws (lstat or readlink fails).
IterCaptureError ==
  /\ pc = "walk"
  /\ \E r \in Pulls :
       /\ r.yield # NoYield /\ ~IsScanRoot(r.yield)
       /\ faults + Cardinality(r.listFailed) < MaxFaults
       /\ stack' = r.stack
       /\ started' = TRUE
       /\ faults' = faults + Cardinality(r.listFailed) + 1
       /\ errorCount' = OnEntryError(errorCount)
       /\ history' = [history EXCEPT !.last = [op |-> "capture_error", node |-> r.yield],
                                    !.yielded = Append(@, r.yield),
                                    !.capFailed = @ \cup {r.yield},
                                    !.listFailed = @ \cup r.listFailed]
  /\ UNCHANGED <<pc, otherVars, buffer, dbVars, count, stats, foundUids, foundGids, sign,
                 isSuccess, dbOpen, outcome>>

\* The body up to the flush test, for a pull r and a hash result h.
Captured(r, h) == Recorded(getEntryData(r.yield, h.hash))

BodyHistory(r, h, c, op) ==
  [history EXCEPT !.last = [op |-> op, node |-> r.yield],
                  !.yielded = Append(@, r.yield),
                  !.captured = @ \cup c.pushed,
                  !.hashFailed = @ \cup (IF h.fault = 1 THEN {r.yield} ELSE {}),
                  !.unsupported = @ \cup (IF IsNull(getEntryData(r.yield, h.hash))
                                          THEN {r.yield} ELSE {}),
                  !.listFailed = @ \cup r.listFailed]

\* An iteration that flushes nothing: the buffer is below the threshold, or
\* the record was skipped.
IterNoFlush ==
  /\ pc = "walk"
  /\ \E r \in Pulls :
       /\ r.yield # NoYield /\ ~IsScanRoot(r.yield)
       /\ \E h \in HashResults(r.yield, MaxFaults - faults - Cardinality(r.listFailed)) :
            LET c == Captured(r, h) IN
            /\ c.skip \/ ~FlushDue(c.buffer)
            /\ stack' = r.stack
            /\ started' = TRUE
            /\ faults' = faults + Cardinality(r.listFailed) + h.fault
            /\ count' = c.count
            /\ stats' = c.stats
            /\ foundUids' = c.uids
            /\ foundGids' = c.gids
            /\ buffer' = c.buffer
            /\ history' = BodyHistory(r, h, c, "capture")
  /\ UNCHANGED <<pc, otherVars, dbVars, errorCount, sign, isSuccess, dbOpen, outcome>>

\* An iteration whose batch is committed: transaction(buffer); buffer = [].
IterFlush ==
  /\ pc = "walk"
  /\ \E r \in Pulls :
       /\ r.yield # NoYield /\ ~IsScanRoot(r.yield)
       /\ \E h \in HashResults(r.yield, MaxFaults - faults - Cardinality(r.listFailed)) :
            LET c == Captured(r, h) IN
            /\ ~c.skip /\ FlushDue(c.buffer)
            /\ ~PrimaryKeyConflict(entries, c.buffer)
            /\ stack' = r.stack
            /\ started' = TRUE
            /\ faults' = faults + Cardinality(r.listFailed) + h.fault
            /\ count' = c.count
            /\ stats' = c.stats
            /\ foundUids' = c.uids
            /\ foundGids' = c.gids
            /\ entries' = transaction(entries, c.buffer)
            /\ buffer' = <<>>
            /\ history' = BodyHistory(r, h, c, "flush")
  /\ UNCHANGED <<pc, otherVars, users, groups, snapshot_info, errorCount, sign, isSuccess,
                 dbOpen, outcome>>

\* An iteration whose transaction throws (an I/O fault or a primary-key
\* conflict): the batch is rolled back, the throw lands in the catch of the
\* loop body, and the buffer keeps its records.
IterFlushError ==
  /\ pc = "walk"
  /\ \E r \in Pulls :
       /\ r.yield # NoYield /\ ~IsScanRoot(r.yield)
       /\ \E h \in HashResults(r.yield, MaxFaults - faults - Cardinality(r.listFailed)) :
            LET c == Captured(r, h)
                io == IF PrimaryKeyConflict(entries, c.buffer) THEN 0 ELSE 1
            IN
            /\ ~c.skip /\ FlushDue(c.buffer)
            /\ faults + Cardinality(r.listFailed) + h.fault + io <= MaxFaults
            /\ stack' = r.stack
            /\ started' = TRUE
            /\ faults' = faults + Cardinality(r.listFailed) + h.fault + io
            /\ count' = c.count
            /\ stats' = c.stats
            /\ foundUids' = c.uids
            /\ foundGids' = c.gids
            /\ entries' = rollback(entries, c.buffer)
            /\ buffer' = c.buffer
            /\ errorCount' = OnEntryError(errorCount)
            /\ history' = [BodyHistory(r, h, c, "flush_error") EXCEPT !.flushFailed = @ + 1]
  /\ UNCHANGED <<pc, otherVars, users, groups, snapshot_info, sign, isSuccess, dbOpen,
                 outcome>>

\* ------------------------------------------------- after the walk loop

\* A throw after which the try block goes on with its next statement.
OnThrow_GoesOn(next) == next

\* A throw below lands in `catch (err) { isSuccess = false; ... }`: whatever
\* statement would have come next, the rest of the try block is skipped and
\* the finally block closes the database.
OnThrow(next) == "close"

\* A final flush that writes nothing.
FinalBatch_Nothing(buf) == <<>>

\* The batch the final flush writes: `if (buffer.length > 0) transaction(buffer)`.
FinalBatch(buf) == buf

\* Finalize remaining entries.  The buffer variable is not reassigned.
FinalFlush ==
  /\ pc = "finalize"
  /\ ~PrimaryKeyConflict(entries, FinalBatch(buffer))
  /\ entries' = IF Len(buffer) > 0 THEN transaction(entries, FinalBatch(buffer)) ELSE entries
  /\ pc' = "sign"
  /\ history' = [history EXCEPT !.last = [op |-> "final_flush", node |-> 0]]
  /\ UNCHANGED <<otherVars, walkVars, buffer, users, groups, snapshot_info, counterVars, sign,
                 isSuccess, dbOpen, outcome, faults>>

\* The final transaction throws: caught by the outer catch.
FinalFlushError ==
  /\ pc = "finalize"
  /\ Len(buffer) > 0
  /\ faults < MaxFaults \/ PrimaryKeyConflict(entries, buffer)
  /\ isSuccess' = FALSE
  /\ pc' = OnThrow("sign")
  /\ faults' = IF PrimaryKeyConflict(entries, buffer) THEN faults ELSE faults + 1
  /\ entries' = rollback(entries, buffer)
  /\ history' = [history EXCEPT !.last = [op |-> "final_flush_error", node |-> 0],
                               !.flushFailed = @ + 1]
  /\ UNCHANGED <<otherVars, walkVars, buffer, users, groups, snapshot_info, counterVars, sign,
                 dbOpen, outcome>>

\* sign = calculateSnapshotContentHash(db)
ComputeSign ==
  /\ pc = "sign"
  /\ sign' = Some(calculateSnapshotContentHash(entries, users, groups))
  /\ pc' = "identities"
  /\ history' = [history EXCEPT !.last = [op |-> "sign", node |-> 0]]
  /\ UNCHANGED <<otherVars, walkVars, buffer, dbVars, counterVars, isSuccess, dbOpen, outcome,
                 faults>>

\* Reading the tables back throws.
ComputeSignError ==
  /\ pc = "sign"
  /\ faults < MaxFaults
  /\ isSuccess' = FALSE
  /\ pc' = OnThrow("identities")
  /\ faults' = faults + 1
  /\ history' = [history EXCEPT !.last = [op |-> "sign_error", node |-> 0], !.signFailed = TRUE]
  /\ UNCHANGED <<otherVars, walkVars, buffer, dbVars, counterVars, sign, dbOpen, outcome>>

\* The transaction that stores every found user and group.
PersistIdentities ==
  /\ pc = "identities"
  /\ users' = users \o UserRows(foundUids)
  /\ groups' = groups \o GroupRows(foundGids)
  /\ pc' = "manifest"
  /\ history' = [history EXCEPT !.last = [op |-> "identities", node |-> 0]]
  /\ UNCHANGED <<otherVars, walkVars, buffer, entries, snapshot_info, counterVars, sign,
                 isSuccess, dbOpen, outcome, faults>>

PersistIdentitiesError ==
  /\ pc = "identities"
  /\ faults < MaxFaults
  /\ isSuccess' = FALSE
  /\ pc' = OnThrow("manifest")
  /\ faults' = faults + 1
  /\ history' = [history EXCEPT !.last = [op |-> "identities_error", node |-> 0],
                               !.identFailed = TRUE]
  /\ UNCHANGED <<otherVars, walkVars, buffer, dbVars, counterVars, sign, dbOpen, outcome>>

\* The row of snapshot_info (the clock columns are left out).
ManifestRow ==
  [version |-> "1.0.0",
   root_path |-> <<"/">>,
   total_entries |-> count,
   total_files |-> stats.files,
   total_dirs |-> stats.dirs,
   total_links |-> stats.links,
   total_size |-> stats.totalSize,
   total_errors |-> errorCount,
   os_platform |-> "linux",
   snapshot_hash |-> sign,
   exclude_paths |-> excludePaths]

\* Persist Snapshot Metadata.
WriteManifest ==
  /\ pc = "manifest"
  /\ snapshot_info' = Append(snapshot_info, ManifestRow)
  /\ pc' = "close"
  /\ history' = [history EXCEPT !.last = [op |-> "manifest", node |-> 0]]
  /\ UNCHANGED <<otherVars, walkVars, buffer, entries, users, groups, counterVars, sign,
                 isSuccess, dbOpen, outcome, faults>>

WriteManifestError ==
  /\ pc = "manifest"
  /\ faults < MaxFaults
  /\ isSuccess' = FALSE
  /\ pc' = OnThrow("close")
  /\ faults' = faults + 1
  /\ history' = [history EXCEPT !.last = [op |-> "manifest_error", node |-> 0],
                               !.manifestFailed = TRUE]
  /\ UNCHANGED <<otherVars, walkVars, buffer, dbVars, counterVars, sign, dbOpen, outcome>>

\* finally { db.close() }
Close ==
  /\ pc = "close"
  /\ dbOpen' = FALSE
  /\ pc' = "closed"
  /\ history' = [history EXCEPT !.last = [op |-> "close", node |-> 0]]
  /\ UNCHANGED <<otherVars, walkVars, buffer, dbVars, counterVars, sign, isSuccess, outcome,
                 faults>>

\* How the promise of createSnapshot settles once the try statement is left:
\* the catch block swallowed any error, so the function returns on both paths
\* (`if (!isSuccess) return;` and the end of the function).
Settle(success) == "resolved"

\* Artifacts written whether the run succeeded or not.
ArtifactsDue_Always(success) == TRUE

\* `if (!isSuccess) { return; }`: only a successful run goes on to the artifacts.
ArtifactsDue(success) == success

Return ==
  /\ pc = "closed"
  /\ ~ArtifactsDue(isSuccess)
  /\ outcome' = Settle(isSuccess)
  /\ pc' = "done"
  /\ history' = [history EXCEPT !.last = [op |-> "return", node |-> 0]]
  /\ UNCHANGED <<otherVars, walkVars, buffer, dbVars, counterVars, sign, isSuccess, dbOpen,
                 faults>>

\* The lines of the .sig file: the fixed header and `${sign}`.
SigContent(sg) ==
  <<"# Forensic Content Hash (SHA256)",
    "# This hash represents the data inside the database, not the file itself.",
    "# Calculated over 'entries' table sorted by path.",
    sg>>

\* What `if (generateSignFile) { try { writeFileSync(hashFilePath, content) }
\* catch { warning } }` leaves in the .sig file.
SigFileAfter(generateSignFile, writeOk) ==
  IF generateSignFile /\ writeOk THEN Some(SigContent(sign)) ELSE sigFile

\* What `if (generateChecksum) { try { fileHash = await calculateFileHash(dbPath);
\* writeFileSync(checksumPath, `${fileHash}  ${fileName}\n`) } catch { warning } }`
\* leaves in the .sha256 file: the digest of the database file and its name.
ChecksumFileAfter(generateChecksum, writeOk) ==
  IF generateChecksum /\ writeOk
  THEN Some(<<Sha256(<<entries, users, groups, snapshot_info>>), "basename(dbPath)">>)
  ELSE checksumFile

\* The rest of a successful call, for every value of the two options: the
\* artifacts are written, a failure of either is only reported (nothing
\* follows it, so it is not taken from the fault budget), the call returns.
GenerateArtifacts ==
  /\ pc = "closed"
  /\ ArtifactsDue(isSuccess)
  /\ \E generateSignFile, generateChecksum, sigOk, sumOk \in BOOLEAN :
       /\ sigFile' = SigFileAfter(generateSignFile, sigOk)
       /\ checksumFile' = ChecksumFileAfter(generateChecksum, sumOk)
  /\ outcome' = Settle(isSuccess)
  /\ pc' = "done"
  /\ history' = [history EXCEPT !.last = [op |-> "artifacts", node |-> 0]]
  /\ UNCHANGED <<excludePaths, cliVars, toYield, walkVars, buffer, dbVars, counterVars, sign,
                 isSuccess, dbOpen, faults>>

\* ------------------------------------------ another run on the same path

\* initDb creating the entries table with IF NOT EXISTS.
CreateEntriesTable_IfNotExists(exists) == "ok"

\* `CREATE TABLE entries (...)` of initDb: an error when the table exists.
CreateEntriesTable(exists) == IF exists THEN "throws" ELSE "ok"

\* createSnapshot is called again with the same dbPath, any number of times.
\* initDb opens the database, which has the tables the first call created;
\* when its db.exec throws, the call ends with that error, its connection
\* stays open and the locals of the call are never set (the variables keep
\* what the last run left).
RunAgain ==
  /\ pc \in {"done", "thrown"}
  /\ dbOpen' = TRUE
  /\ IF CreateEntriesTable(TRUE) = "throws"
     THEN /\ pc' = "thrown"
          /\ outcome' = "rejected"
          /\ history' = [history EXCEPT !.last = [op |-> "initdb_error", node |-> 0]]
          /\ UNCHANGED <<walkVars, buffer, counterVars, sign, isSuccess>>
     ELSE /\ pc' = "setup"
          /\ outcome' = "pending"
          /\ history' = NoHistory
          /\ stack' = <<>>
          /\ started' = FALSE
          /\ buffer' = <<>>
          /\ count' = 0
          /\ errorCount' = 0
          /\ stats' = [files |-> 0, dirs |-> 0, links |-> 0, totalSize |-> 0]
          /\ foundUids' = {}
          /\ foundGids' = {}
          /\ sign' = Null
          /\ isSuccess' = TRUE
  /\ UNCHANGED <<excludePaths, artifactVars, cliVars, toYield, dbVars, faults>>

Next ==
  \/ Setup
  \/ SetupError
  \/ WalkEnd
  \/ IterRoot
  \/ IterCaptureError
  \/ IterNoFlush
  \/ IterFlush
  \/ IterFlushError
  \/ FinalFlush
  \/ FinalFlushError
  \/ ComputeSign
  \/ ComputeSignError
  \/ PersistIdentities
  \/ PersistIdentitiesError
  \/ WriteManifest
  \/ WriteManifestError
  \/ Close
  \/ Return
  \/ GenerateArtifacts

Spec == Init /\ [][Next]_vars

\* Any number of calls of createSnapshot on one database path.
RerunNext ==
  \/ Next
  \/ RunAgain

RerunSpec == Init /\ [][RerunNext]_vars

\* --------------------------------------- the path keys of walked entries

\* Relative paths, as name segments, of entries one POSIX directory can hold
\* together: a directory x, the files y, `x\y`, `x\\y` and `y\x` next to it,
\* and a file y inside x.  A backslash is an ordinary character of a POSIX
\* name.
PathChoices ==
  { << <<"x">> >>,
    << <<"y">> >>,
    << <<"x", "\\", "y">> >>,
    << <<"x", "\\", "\\", "y">> >>,
    << <<"y", "\\", "x">> >>,
    << <<"x">>, <<"y">> >> }

\* What a walk may yield below the root: one more path than a batch holds,
\* no path twice, a directory before what is inside it.
WalkChoices ==
  { w \in [1..(BatchThreshold + 1) -> PathChoices] :
      /\ \A i, j \in DOMAIN w : i # j => w[i] # w[j]
      /\ \A i \in DOMAIN w :
           Len(w[i]) > 1 => \E j \in 1..(i - 1) : w[j] = SubSeq(w[i], 1, Len(w[i]) - 1) }

\* getEntryData for the regular file at relative path rel: the record of a
\* file, its path being relative(rootPath, filePath) with every run of
\* backslashes replaced by one slash.
EntryDataAt(rel) ==
  [getEntryData(2, calculateFileHash(2, TRUE))[1]
     EXCEPT !.path = ReplaceBackslashRuns(JoinWith(rel, sep))]

\* The loop of createSnapshot over a walk that has skipped the root and
\* yields the paths of toYield.
KeyInit ==
  /\ pc = "walk"
  /\ excludePaths = <<>>
  /\ inputs = NoInputs
  /\ toYield \in WalkChoices
  /\ Entered

KeyHistory(c, op) ==
  [history EXCEPT !.last = [op |-> op, node |-> 0], !.captured = @ \cup c.pushed]

\* An iteration that captures the next path and flushes nothing.
KeyIterNoFlush ==
  /\ pc = "walk"
  /\ toYield # <<>>
  /\ LET c == Recorded(Some(EntryDataAt(Head(toYield)))) IN
       /\ ~FlushDue(c.buffer)
       /\ count' = c.count
       /\ stats' = c.stats
       /\ foundUids' = c.uids
       /\ foundGids' = c.gids
       /\ buffer' = c.buffer
       /\ history' = KeyHistory(c, "capture")
  /\ toYield' = Tail(toYield)
  /\ UNCHANGED <<pc, excludePaths, artifactVars, cliVars, walkVars, dbVars, errorCount, sign,
                 isSuccess, dbOpen, outcome, faults>>

\* An iteration that captures the next path and commits the full batch.
KeyIterFlush ==
  /\ pc = "walk"
  /\ toYield # <<>>
  /\ LET c == Recorded(Some(EntryDataAt(Head(toYield)))) IN
       /\ FlushDue(c.buffer)
       /\ ~PrimaryKeyConflict(entries, c.buffer)
       /\ count' = c.count
       /\ stats' = c.stats
       /\ foundUids' = c.uids
       /\ foundGids' = c.gids
       /\ entries' = transaction(entries, c.buffer)
       /\ buffer' = <<>>
       /\ history' = KeyHistory(c, "flush")
  /\ toYield' = Tail(toYield)
  /\ UNCHANGED <<pc, excludePaths, artifactVars, cliVars, walkVars, users, groups, snapshot_info,
                 errorCount, sign, isSuccess, dbOpen, outcome, faults>>

\* An iteration whose transaction throws on a path that is already a row or
\* is twice in the batch: the catch of the loop body counts an error and the
\* buffer keeps its records.
KeyIterFlushError ==
  /\ pc = "walk"
  /\ toYield # <<>>
  /\ LET c == Recorded(Some(EntryDataAt(Head(toYield)))) IN
       /\ FlushDue(c.buffer)
       /\ PrimaryKeyConflict(entries, c.buffer)
       /\ count' = c.count
       /\ stats' = c.stats
       /\ foundUids' = c.uids
       /\ foundGids' = c.gids
       /\ entries' = rollback(entries, c.buffer)
       /\ buffer' = c.buffer
       /\ errorCount' = OnEntryError(errorCount)
       /\ history' = [KeyHistory(c, "flush_error") EXCEPT !.flushFailed = @ + 1]
  /\ toYield' = Tail(toYield)
  /\ UNCHANGED <<pc, excludePaths, artifactVars, cliVars, walkVars, users, groups, snapshot_info,
                 sign, isSuccess, dbOpen, outcome, faults>>

\* The walk has yielded its last path: the loop ends.
KeyWalkEnd ==
  /\ pc = "walk"
  /\ toYield = <<>>
  /\ pc' = "finalize"
  /\ history' = [history EXCEPT !.last = [op |-> "end", node |-> 0]]
  /\ UNCHANGED <<otherVars, walkVars, buffer, dbVars, counterVars, sign, isSuccess, dbOpen,
                 outcome, faults>>

\* The loop and the final flush over such a walk.
KeyNext ==
  \/ KeyIterNoFlush
  \/ KeyIterFlush
  \/ KeyIterFlushError
  \/ KeyWalkEnd
  \/ FinalFlush
  \/ FinalFlushError

KeySpec == KeyInit /\ [][KeyNext]_vars

\* ----------------------------------------------------------------- claims

Completed == snapshot_info # <<>>

Manifest == snapshot_info[1]

Rows(table) == SeqToSet(table)

\* C1: if any batch flush fails during a run, in the walk loop or at the end,
\* the run aborts and no manifest row is ever written for it.
C1_FailedFlushLeavesNoManifest == history.flushFailed > 0 => snapshot_info = <<>>

\* C2: the stored signature is the digest over everything the completed run
\* persists: all entries by path, then all users by uid, then all groups by gid.
C2_SignatureCoversPersistedIdentities ==
  Completed => Manifest.snapshot_hash = Some(calculateSnapshotContentHash(entries, users, groups))

RECURSIVE Ancestors(_)
Ancestors(n) ==
  IF n = RootNode THEN {} ELSE {FsTree[n].parent} \cup Ancestors(FsTree[n].parent)

\* The records a run captures, from the file system, the exclusions and the
\* faults of the run alone (no discovery order enters): the non-root nodes of
\* a supported type with no excluded node and no unlistable directory above
\* them, whose capture did not throw.
DeterminedRows ==
  { getEntryData(n, calculateFileHash(n, n \notin history.hashFailed))[1] :
      n \in { m \in Nodes \ {RootNode} :
                /\ FsTree[m].kind \in {"dir", "file", "link"}
                /\ \A a \in Ancestors(m) \cup {m} : ~shouldExclude(a, excludeMatchers)
                /\ Ancestors(m) \cap history.listFailed = {}
                /\ m \notin history.capFailed } }

\* C3: the snapshot_hash of a completed run is fixed by the file-system state,
\* the exclusions and the faults met: it is the digest of the determined rows
\* in ascending byte order of their paths, so two runs over the same state
\* store the same hash whatever the order of discovery and of insertion.
C3_SignatureIndependentOfDiscoveryOrder ==
  Completed =>
    LET hashed == Manifest.snapshot_hash[1][2] IN
    /\ Manifest.snapshot_hash[1][1] = "sha256"
    /\ Len(hashed) = Cardinality(DeterminedRows)
    /\ SeqToSet(hashed) = { StringifyEntry(r) : r \in DeterminedRows }
    /\ \A i \in 1..(Len(hashed) - 1) : BytesLess(hashed[i][1], hashed[i + 1][1])

\* A completed run whose rows were inserted in an order other than path order,
\* in more than one batch.
C3_Witness ==
  /\ Completed
  /\ Len(entries) > BatchThreshold
  /\ entries # OrderByPath(entries)

\* C4 as stated: the manifest row is written at most once, and only in a state
\* where the buffer is empty, every captured record is a row of entries and
\* the signature has been computed.
C4_ManifestOnlyWithEmptyBuffer ==
  /\ Len(snapshot_info) <= 1
  /\ Completed => /\ buffer = <<>>
                  /\ history.captured \subseteq Rows(entries)
                  /\ ~IsNull(sign)

\* C4, amended: the manifest row is written at most once, and only in a state
\* where every record captured by the run is a row of entries and the
\* signature it stores has been computed; the buffer variable may still hold
\* the records of the last, already committed, partial batch.
C4_ManifestOnlyAfterCommitAndSignature ==
  /\ Len(snapshot_info) <= 1
  /\ Completed => /\ history.captured \subseteq Rows(entries)
                  /\ SeqToSet(buffer) \subseteq Rows(entries)
                  /\ ~IsNull(sign)
                  /\ Manifest.snapshot_hash = sign

\* A manifest written after a batch committed in the loop and a final partial
\* batch, which the buffer still holds.
C4_Witness ==
  /\ Completed
  /\ buffer # <<>>
  /\ Len(entries) > Len(buffer)

\* C5: when the listing of a directory fails and nothing fatal happens, the
\* run completes, its manifest row has total_errors >= 1, and what was
\* captured stays persisted.
C5_ListingFailureIsCounted ==
  (pc = "done" /\ isSuccess /\ history.listFailed # {}) =>
     /\ Completed
     /\ Manifest.total_errors >= 1
     /\ history.captured \subseteq Rows(entries)

PathOf(n) == ReplaceBackslashRuns(relative(n))

\* C6: a step in which getEntryData throws for a path raises the error counter
\* by exactly one, leaves the buffer, the tables and the other counters as
\* they were, leaves the run in the walk loop, and no record of that path is
\* buffered or persisted then or later.
C6_CaptureFailureIsLocal ==
  [][ /\ (history'.capFailed # history.capFailed =>
            /\ errorCount' = errorCount + 1
            /\ buffer' = buffer
            /\ entries' = entries
            /\ count' = count
            /\ stats' = stats
            /\ pc' = "walk"
            /\ isSuccess')
      /\ \A n \in history'.capFailed :
           /\ \A i \in 1..Len(buffer') : buffer'[i].path # PathOf(n)
           /\ \A i \in 1..Len(entries') : entries'[i].path # PathOf(n) ]_vars

\* A completed run in which a capture failed and later paths were recorded.
C6_Witness ==
  /\ Completed
  /\ history.capFailed # {}
  /\ Manifest.total_errors = Cardinality(history.capFailed)
  /\ Manifest.total_entries > 0

\* C7: a run that ended in the outer catch because a batch flush or the
\* signature computation threw ends as a failed call, and a run in which only
\* captures or listings failed does not.
C7_FatalErrorsReachTheCaller ==
  pc = "done" =>
    /\ (~isSuccess /\ (history.flushFailed > 0 \/ history.signFailed)) => outcome = "rejected"
    /\ isSuccess => outcome = "resolved"

FileSizes == [i \in 1..Len(entries) |->
                IF entries[i].type = "file" /\ ~IsNull(entries[i].size)
                THEN entries[i].size[1] ELSE 0]

\* C8: in the manifest of every completed run total_entries = total_files +
\* total_dirs + total_links and total_size is the sum of size over the rows of
\* entries whose type is file.
C8_ManifestTotalsAddUp ==
  Completed =>
    /\ Manifest.total_entries = Manifest.total_files + Manifest.total_dirs + Manifest.total_links
    /\ Manifest.total_size = SeqSum(FileSizes)

\* A completed run that persisted files, a directory and a link.
C8_Witness ==
  /\ Completed
  /\ Manifest.total_files >= 2
  /\ Manifest.total_dirs >= 1
  /\ Manifest.total_links >= 1
  /\ Manifest.total_size > 0

\* C9: every row of entries of type file has a hash, every row of type link
\* has a target and no hash, every row of type dir has neither.
C9_HashAndTargetByType ==
  \A i \in 1..Len(entries) :
    LET r == entries[i] IN
    /\ r.type = "file" => ~IsNull(r.hash)
    /\ r.type = "link" => ~IsNull(r.target) /\ IsNull(r.hash)
    /\ r.type = "dir" => IsNull(r.hash) /\ IsNull(r.target)

\* C10: every record getEntryData produces with type dir or link has size
\* null.
C10_SizeNullForDirAndLink ==
  \A r \in history.captured : r.type \in {"dir", "link"} => IsNull(r.size)

\* C11: no row of entries and no buffered record has the path of the scan root
\* ('.'); the root is the first path the walker yields, and the step that
\* processes it counts nothing: no counter moves, no error is counted for it,
\* and nothing is buffered.
C11_RootNeverCountedNorPersisted ==
  /\ \A i \in 1..Len(entries) : entries[i].path # <<".">>
  /\ \A i \in 1..Len(buffer) : buffer[i].path # <<".">>
  /\ \A r \in history.captured : r.path # <<".">>
  /\ history.yielded # <<>> => history.yielded[1] = RootNode
  /\ RootNode \notin history.capFailed \cup history.hashFailed \cup history.unsupported
  /\ history.last.node = RootNode =>
       /\ count = 0 /\ errorCount = 0
       /\ stats = [files |-> 0, dirs |-> 0, links |-> 0, totalSize |-> 0]
       /\ foundUids = {} /\ foundGids = {}
       /\ buffer = <<>> /\ entries = <<>>

\* A completed run whose walker yielded the root first and whose other paths
\* were persisted.
C11_Witness ==
  /\ Completed
  /\ history.yielded # <<>>
  /\ history.yielded[1] = RootNode
  /\ Len(entries) >= 3
  /\ Manifest.total_entries = Len(entries)

\* The paths the walker yielded.
Yielded == SeqToSet(history.yielded)

\* C12: in a run excluding **/n/** the walker yields no path with a segment n:
\* neither the entry named n nor anything below it.
C12_GlobstarPatternRemovesTheDirectoryItself ==
  excludePaths = << <<"*", "*", "/", "n", "/", "*", "*">> >> =>
    \A m \in Yielded : <<"n">> \notin SeqToSet(RelSegments(m))

\* The root-relative path of a node matches one of the run's exclusion rules.
MatchesARule(n) ==
  \E i \in 1..Len(excludeMatchers) : MatchOne(Split(relative(n), "/"), excludeMatchers[i])

\* C13: neither a yielded path nor any directory above it, up to the root,
\* matches an exclusion rule; an excluded root yields nothing.
C13_NothingYieldedUnderAnExcludedDirectory ==
  /\ \A m \in Yielded : \A a \in Ancestors(m) \cup {m} : ~MatchesARule(a)
  /\ MatchesARule(RootNode) => history.yielded = <<>>

\* A finished walk with the directory s excluded by name: s/b and s/l match no
\* pattern themselves, the siblings of s were yielded.
C13_Witness ==
  /\ pc = "done"
  /\ MatchesARule(3)
  /\ ~MatchesARule(4) /\ ~MatchesARule(5)
  /\ {2, 6, 7, 8} \subseteq Yielded

\* A node the walk yields when no listing fails: neither it nor a directory
\* above it matches an exclusion rule.
NotExcluded(m) == \A a \in Ancestors(m) \cup {m} : ~MatchesARule(a)

\* The for-await loop over walk has ended.
WalkOver == started /\ pc # "walk"

\* C14: a directory whose listing failed was yielded itself and nothing below
\* it is yielded; the walk goes on, so that when it has ended every
\* non-excluded path outside the subtrees of such directories was yielded.
C14_ListingFailureCutsOnlyItsSubtree ==
  /\ \A d \in history.listFailed :
       /\ d \in Yielded
       /\ \A m \in Yielded : d \notin Ancestors(m)
  /\ WalkOver =>
       \A m \in Nodes :
         (NotExcluded(m) /\ Ancestors(m) \cap history.listFailed = {}) => m \in Yielded

\* A finished run in which the listing of a directory other than the root
\* failed and the walker yielded further paths after that directory.
C14_Witness ==
  /\ pc = "done"
  /\ history.listFailed # {}
  /\ RootNode \notin history.listFailed
  /\ \E i, j \in 1..Len(history.yielded) :
       /\ i < j
       /\ history.yielded[i] \in history.listFailed
       /\ history.yielded[j] \notin history.listFailed

\* C15: the walk ends on a tree whose link s/l points back to the scan root.
\* Every pull of the generator either ends the walk or yields a path that was
\* not yielded before, so the walk is over after at most one pull per node and
\* one more; a symbolic link is never the directory of a call of walk.
C15_WalkTerminatesAndNeverEntersALink ==
  [][ /\ pc = "walk" =>
           \/ pc' = "finalize" /\ history'.yielded = history.yielded
           \/ /\ pc' = "walk"
              /\ Len(history'.yielded) = Len(history.yielded) + 1
              /\ history'.yielded[Len(history'.yielded)] \notin Yielded
      /\ Len(history'.yielded) <= Cardinality(Nodes)
      /\ \A i \in 1..Len(stack') : FsTree[stack'[i].dir].kind = "dir" ]_vars

\* A finished walk that yielded every node of the tree, the link to the root
\* among them.
C15_Witness ==
  /\ pc = "done"
  /\ FsTree[5].kind = "link" /\ Follow(5) = RootNode
  /\ Yielded = Nodes
  /\ Len(history.yielded) = Cardinality(Nodes)

\* C16: the buffer never holds more records than the flush threshold, and a
\* record is appended only to a buffer that holds fewer records than the
\* threshold (a buffer that reached it was flushed and cleared first).
C16_BufferBoundedByThreshold ==
  [][ /\ Len(buffer') <= BatchThreshold
      /\ history'.captured # history.captured => Len(buffer) < BatchThreshold ]_vars

\* C17: a flush attempt commits every record of the flushed buffer or none: a
\* step changes entries only by appending the whole buffer it flushed (the
\* buffer with the record appended in that step, if any), and a step whose
\* flush failed leaves entries as it was.
C17_FlushIsAllOrNothing ==
  [][ /\ entries' # entries =>
           \E batch \in {buffer} \cup { Append(buffer, r) : r \in history'.captured \ history.captured } :
             /\ batch # <<>>
             /\ entries' = entries \o batch
      /\ history'.flushFailed # history.flushFailed => entries' = entries ]_vars

\* A flush failed, and later a buffer larger than the threshold was committed
\* in one piece.
C17_Witness ==
  /\ history.flushFailed > 0
  /\ history.last.op = "flush"
  /\ Len(entries) > BatchThreshold
  /\ buffer = <<>>

\* C18: once the signature is computed, every record captured during the run
\* is a row of entries (the last partial batch was flushed first) and is among
\* the rows the signature was computed over.
C18_SignatureReadsEveryCapturedRecord ==
  ~IsNull(sign) =>
    /\ history.captured \subseteq Rows(entries)
    /\ { StringifyEntry(r) : r \in history.captured } \subseteq SeqToSet(sign[1][2])

\* The signature has just been computed in a run that committed a batch in the
\* loop and had a partial batch left at the end of the walk.
C18_Witness ==
  /\ history.last.op = "sign"
  /\ ~IsNull(sign)
  /\ buffer # <<>>
  /\ Len(buffer) < BatchThreshold
  /\ Len(entries) > Len(buffer)

\* C19: after a completed run the users table has exactly one row for every
\* uid of a row of entries and no other row, the groups table likewise for the
\* gids; an ID the identity lookup does not know has a placeholder row.
C19_IdentityTablesMatchPersistedEntries ==
  Completed =>
    /\ { u.uid : u \in Rows(users) } = { e.uid : e \in Rows(entries) }
    /\ Len(users) = Cardinality({ e.uid : e \in Rows(entries) })
    /\ { g.gid : g \in Rows(groups) } = { e.gid : e \in Rows(entries) }
    /\ Len(groups) = Cardinality({ e.gid : e \in Rows(entries) })
    /\ \A u \in Rows(users) : getUserByUid(u.uid) = {} => u.username = <<"unknown_u", u.uid>>
    /\ \A g \in Rows(groups) : getGroupByGid(g.gid) = {} => g.groupname = <<"unknown_g", g.gid>>

\* A completed run that persisted entries of a known and of an unknown owner
\* and group.
C19_Witness ==
  /\ Completed
  /\ { e.uid : e \in Rows(entries) } = {0, 1}
  /\ { e.gid : e \in Rows(entries) } = {0, 1}
  /\ \E u \in Rows(users) : u.username = <<"unknown_u", 1>>
  /\ \E g \in Rows(groups) : g.groupname = <<"unknown_g", 1>>

\* C20: the step that processes a path of an unsupported type (device, socket,
\* FIFO) leaves the buffer, the entries table and every counter, the error
\* counter included, as they were.
C20_UnsupportedTypeChangesNothing ==
  [][ history'.unsupported # history.unsupported =>
        /\ buffer' = buffer
        /\ entries' = entries
        /\ count' = count
        /\ errorCount' = errorCount
        /\ stats' = stats
        /\ foundUids' = foundUids
        /\ foundGids' = foundGids ]_vars

\* C21: over any sequence of calls on one database path snapshot_info never
\* has more than one row, and a call that returned successfully has left
\* exactly one.
C21_AtMostOneManifestRow ==
  /\ Len(snapshot_info) <= 1
  /\ (pc = "done" /\ isSuccess) => Len(snapshot_info) = 1

\* createSnapshot was called again on the database of a completed run.
C21_Witness ==
  /\ history.last.op = "initdb_error"
  /\ pc = "thrown"
  /\ Len(snapshot_info) = 1
  /\ Len(entries) > 0

\* C22: when the signature computation or the identity persistence threw, the
\* run is a failed one and snapshot_info has no row, at every later point of
\* the run.
C22_NoManifestAfterSignOrIdentityFailure ==
  (history.signFailed \/ history.identFailed) =>
    /\ ~isSuccess
    /\ snapshot_info = <<>>

\* A run that persisted entries and computed its signature, failed to store
\* the identities, and has ended.
C22_Witness ==
  /\ pc = "done"
  /\ history.identFailed
  /\ ~IsNull(sign)
  /\ Len(entries) > BatchThreshold
  /\ ~dbOpen

\* C23: the paths come out in depth-first pre-order: every directory above a
\* yielded path was yielded before it, and once a path outside a yielded
\* directory follows that directory, nothing inside the directory comes later.
C23_WalkIsDepthFirstPreOrder ==
  LET y == history.yielded
  IN /\ \A j \in 1..Len(y) : \A a \in Ancestors(y[j]) : \E i \in 1..(j - 1) : y[i] = a
     /\ \A i, j, k \in 1..Len(y) :
          (i < j /\ j < k /\ y[i] \in Ancestors(y[k])) => y[i] \in Ancestors(y[j])

\* A walk that went through both subdirectories, one after the other, and all
\* that is inside them.
C23_Witness ==
  /\ WalkOver
  /\ {4, 5, 7} \subseteq Yielded
  /\ \E i, j \in 1..Len(history.yielded) :
       /\ i < j
       /\ history.yielded[i] = 7
       /\ history.yielded[j] = 3

\* C24: no step of a run lowers a statistics counter: count, files, dirs,
\* links, totalSize and errors only stay or grow, also in the step of a failed
\* capture or a failed flush.
C24_CountersNeverDecrease ==
  [][ /\ count' >= count
      /\ errorCount' >= errorCount
      /\ stats'.files >= stats.files
      /\ stats'.dirs >= stats.dirs
      /\ stats'.links >= stats.links
      /\ stats'.totalSize >= stats.totalSize ]_vars

\* A flush has just failed in a run that also had a failed capture, with
\* files of different sizes already counted.
C24_Witness ==
  /\ history.last.op = "flush_error"
  /\ history.capFailed # {}
  /\ errorCount = 2
  /\ stats.files >= 2
  /\ stats.totalSize > 3

\* The value of the highest-priority source that gives one (a source whose
\* value is the empty string gives none), else the default.
ByPriority(cli, file, env, default) ==
  CASE Truthy(cli) -> cli[1]
    [] ~Truthy(cli) /\ Truthy(file) -> file[1]
    [] ~Truthy(cli) /\ ~Truthy(file) /\ Truthy(env) -> env[1]
    [] OTHER -> default

C26_EveryWalkedPathCountedOnce ==
  Completed =>
    /\ Manifest.total_errors = Cardinality(history.capFailed)
    /\ Cardinality(Yielded \ {RootNode}) =
         Manifest.total_entries + Manifest.total_errors + Cardinality(history.unsupported)

\* The rows of table entries that have type t.
RowsOfType(t) == { i \in 1..Len(entries) : entries[i].type = t }

\* C27: in a completed run the manifest counters are those of the persisted
\* rows: total_entries is the number of rows of entries, and total_files,
\* total_dirs and total_links are the numbers of rows of each type.
C27_ManifestCountersMatchRows ==
  Completed =>
    /\ Manifest.total_entries = Len(entries)
    /\ Manifest.total_files = Cardinality(RowsOfType("file"))
    /\ Manifest.total_dirs = Cardinality(RowsOfType("dir"))
    /\ Manifest.total_links = Cardinality(RowsOfType("link"))

\* A completed run with rows of the three types, written by more than one
\* flush, one of which had failed and was retried.
C27_Witness ==
  /\ Completed
  /\ history.flushFailed > 0
  /\ Len(entries) > BatchThreshold
  /\ RowsOfType("file") # {} /\ RowsOfType("dir") # {} /\ RowsOfType("link") # {}

\* The positions at which the walk yielded node m.
YieldsOf(m) == { i \in 1..Len(history.yielded) : history.yielded[i] = m }

\* C28: no path is yielded twice, and when the walk has ended every node that
\* is not excluded, has no excluded directory above it and has no directory
\* above it whose listing failed was yielded exactly once.
C28_WalkCompleteAndDuplicateFree ==
  /\ \A m \in Nodes : Cardinality(YieldsOf(m)) <= 1
  /\ WalkOver =>
       \A m \in Nodes :
         (NotExcluded(m) /\ Ancestors(m) \cap history.listFailed = {})
           => Cardinality(YieldsOf(m)) = 1

\* A finished walk under an exclusion rule that removed a subtree, with a
\* directory that could not be listed, and paths yielded all the same.
C28_Witness ==
  /\ WalkOver
  /\ \E m \in Nodes : ~NotExcluded(m)
  /\ history.listFailed # {}
  /\ RootNode \notin history.listFailed
  /\ Len(history.yielded) >= 4

\* C29: a .sig or a .sha256 file exists only when the run wrote its manifest
\* row, succeeded and has closed the database; a run that failed has ended
\* with neither file; and the last line of the .sig file is the snapshot_hash
\* of the manifest.
C29_ArtifactsOnlyAfterACompletedClosedRun ==
  /\ (~IsNull(sigFile) \/ ~IsNull(checksumFile)) => (Completed /\ isSuccess /\ ~dbOpen)
  /\ (pc = "done" /\ ~isSuccess) => (IsNull(sigFile) /\ IsNull(checksumFile))
  /\ ~IsNull(sigFile) => sigFile[1][Len(sigFile[1])] = Manifest.snapshot_hash

\* A run with persisted entries has ended with both artifacts written.
C29_Witness ==
  /\ history.last.op = "artifacts"
  /\ ~IsNull(sigFile)
  /\ ~IsNull(checksumFile)
  /\ ~IsNull(Manifest.snapshot_hash)
  /\ Len(entries) > BatchThreshold

\* C30: when a call of createSnapshot that opened the database has ended,
\* by returning or by throwing, the database is closed.
C30_EveryOpenedDatabaseIsClosed ==
  pc \in {"done", "thrown"} => ~dbOpen

\* C31: the paths yielded by one walk are captured with pairwise distinct
\* path keys (as many keys as records counted), and no batch holds a path
\* that is already a row of entries or is in the batch twice.
C31_WalkedEntriesHaveDistinctKeys ==
  /\ Cardinality({ r.path : r \in history.captured }) = count
  /\ ~PrimaryKeyConflict(entries, buffer)

====
